---- MODULE Spec2Model ----
(***************************************************************************)
(* Model of the cost simulation of task-1/src/simulation/dataModel.ts:     *)
(* the scenario catalog, the resolution of the initial context and the     *)
(* relaxation loop of runSimulation.                                       *)
(*                                                                         *)
(* Numbers.  The program computes with JavaScript numbers.  The model      *)
(* computes the same expressions on exact decimals: a number is a record   *)
(*     [neg |-> BOOLEAN, mag |-> <<l_1, ..., l_NLimbs>>]                   *)
(* of value  (-1)^neg * SUM_i l_i * 100^(i - 1 - FracLimbs),  0 <= l_i < 100 *)
(* (sign and magnitude, limbs in base 100, least significant first, the    *)
(* lowest FracLimbs limbs being the fraction).  The constants 0.8, 0.1 and *)
(* 0.05 are the decimals 80/100, 10/100 and 5/100, so every value of the   *)
(* first MaxPasses passes is represented without rounding; in later passes *)
(* a product keeps its first FracLimbs fraction limbs (16 decimal digits   *)
(* with MaxPasses = 6, the resolution of the program's doubles).  A number *)
(* with the empty magnitude stands for NaN / undefined.                    *)
(***************************************************************************)
EXTENDS Integers, Sequences, FiniteSets, TLC

\* ---------------------------------------------------------------- bounds
\* Passes of a run whose values the representation holds without rounding.
MaxPasses == 6

\* Limbs of the integer part: magnitudes stay below 100^IntLimbs.
IntLimbs == 3

\* Every pass adds at most two decimal digits, i.e. one limb, to a value.
FracLimbs == MaxPasses + 2

NLimbs == IntLimbs + FracLimbs

\* ------------------------------------------------------ number arithmetic
NaN == [neg |-> FALSE, mag |-> <<>>]

IsNaN(x) == x.mag = <<>>

ZeroMag == [k \in 1..NLimbs |-> 0]

Zero == [neg |-> FALSE, mag |-> ZeroMag]

Pow100(k) == IF k = 0 THEN 1 ELSE IF k = 1 THEN 100 ELSE IF k = 2 THEN 10000
             ELSE IF k = 3 THEN 1000000 ELSE 100000000

AbsInt(n) == IF n < 0 THEN 0 - n ELSE n

\* The decimal n * 100^(-f): Dec(120, 0) is 120, Dec(10, 2) is 0.001.
Dec(n, f) ==
    [neg |-> n < 0,
     mag |-> [k \in 1..NLimbs |->
                LET e == k - 1 - (FracLimbs - f)
                IN  IF e < 0 \/ e > 4 THEN 0
                    ELSE (AbsInt(n) \div Pow100(e)) % 100]]

RECURSIVE AddFrom(_, _, _, _)
AddFrom(a, b, k, carry) ==
    IF k > NLimbs THEN <<>>
    ELSE LET s == a[k] + b[k] + carry
         IN  <<s % 100>> \o AddFrom(a, b, k + 1, s \div 100)

AddMag(a, b) == AddFrom(a, b, 1, 0)

\* a - b for magnitudes with a >= b.
RECURSIVE SubFrom(_, _, _, _)
SubFrom(a, b, k, borrow) ==
    IF k > NLimbs THEN <<>>
    ELSE LET s == a[k] - b[k] - borrow
         IN  IF s < 0 THEN <<s + 100>> \o SubFrom(a, b, k + 1, 1)
                      ELSE <<s>> \o SubFrom(a, b, k + 1, 0)

SubMag(a, b) == SubFrom(a, b, 1, 0)

RECURSIVE LessFrom(_, _, _)
LessFrom(a, b, k) ==
    IF k = 0 THEN FALSE
    ELSE IF a[k] # b[k] THEN a[k] < b[k]
    ELSE LessFrom(a, b, k - 1)

LessMag(a, b) == LessFrom(a, b, NLimbs)

RECURSIVE MulFrom(_, _, _, _)
MulFrom(a, p, k, carry) ==
    IF k > NLimbs THEN <<>>
    ELSE LET s == a[k] * p + carry
         IN  <<s % 100>> \o MulFrom(a, p, k + 1, s \div 100)

\* a * p for a small natural p.
MulMag(a, p) == MulFrom(a, p, 1, 0)

\* a / 100: the lowest limb leaves the representation.
ShiftDown(a) == [k \in 1..NLimbs |-> IF k < NLimbs THEN a[k + 1] ELSE 0]

Norm(x) == IF x.mag = ZeroMag THEN [x EXCEPT !.neg = FALSE] ELSE x

Neg(x) == IF IsNaN(x) THEN NaN ELSE Norm([x EXCEPT !.neg = ~x.neg])

\* x + y
Add(x, y) ==
    IF IsNaN(x) \/ IsNaN(y) THEN NaN
    ELSE IF x.neg = y.neg THEN Norm([neg |-> x.neg, mag |-> AddMag(x.mag, y.mag)])
    ELSE IF LessMag(x.mag, y.mag)
         THEN Norm([neg |-> y.neg, mag |-> SubMag(y.mag, x.mag)])
         ELSE Norm([neg |-> x.neg, mag |-> SubMag(x.mag, y.mag)])

\* x - y
Sub(x, y) == Add(x, Neg(y))

\* Math.abs(x)
Abs(x) == IF IsNaN(x) THEN NaN ELSE [x EXCEPT !.neg = FALSE]

\* x < y (false when either side is NaN)
Less(x, y) ==
    IF IsNaN(x) \/ IsNaN(y) THEN FALSE
    ELSE IF x.neg /\ ~y.neg THEN TRUE
    ELSE IF ~x.neg /\ y.neg THEN FALSE
    ELSE IF x.neg THEN LessMag(y.mag, x.mag)
    ELSE LessMag(x.mag, y.mag)

\* x * p for a natural p
MulInt(x, p) ==
    IF IsNaN(x) THEN NaN ELSE Norm([neg |-> x.neg, mag |-> MulMag(x.mag, p)])

\* x * (p / 100): the product of x with the decimal constant p/100.
Times(x, p) ==
    IF IsNaN(x) THEN NaN
    ELSE Norm([neg |-> x.neg, mag |-> ShiftDown(MulMag(x.mag, p))])

\* Math.max of two numbers (NaN if either is NaN).
Max2(x, y) == IF IsNaN(x) \/ IsNaN(y) THEN NaN ELSE IF Less(x, y) THEN y ELSE x

\* Math.max(...s) of a non-empty sequence.
RECURSIVE MaxOf(_)
MaxOf(s) == IF Len(s) = 1 THEN s[1] ELSE Max2(s[1], MaxOf(Tail(s)))

\* ------------------------------------------------------------- the model
\* The declared attributes of the two blocks (formulas are the operators below).
blocks ==
    [Production |->
        [materialCost |-> [type |-> "input", value |-> Dec(120, 0)],
         energyCost   |-> [type |-> "input", value |-> Dec(60, 0)],
         disposalCost |-> [type |-> "calculated", value |-> NaN],
         co2Cost      |-> [type |-> "calculated", value |-> NaN]],
     Logistics |->
        [transportCost |-> [type |-> "input", value |-> Dec(35, 0)],
         logisticsCost |-> [type |-> "calculated", value |-> NaN],
         ecoFees       |-> [type |-> "calculated", value |-> NaN]]]

BlockNames == DOMAIN blocks

AttributesOf(b) == DOMAIN blocks[b]

AttributeNames == UNION {AttributesOf(b) : b \in BlockNames}

InputNames ==
    UNION {{a \in AttributesOf(b) : blocks[b][a].type = "input"} : b \in BlockNames}

CalculatedNames ==
    UNION {{a \in AttributesOf(b) : blocks[b][a].type = "calculated"} : b \in BlockNames}

\* blocks.Production.disposalCost.formula
formula_disposalCost(ctx) == Add(Times(ctx.materialCost, 80), ctx.co2Cost)

\* blocks.Production.co2Cost.formula
formula_co2Cost(ctx) == Add(Times(ctx.energyCost, 10), Times(ctx.disposalCost, 5))

\* blocks.Logistics.logisticsCost.formula
formula_logisticsCost(ctx) == Add(ctx.transportCost, ctx.ecoFees)

\* An ecoFees formula with the factor 1.1 in place of 0.1.
formula_ecoFeesAmplified(ctx) ==
    Add(Times(ctx.logisticsCost, 110), Times(ctx.co2Cost, 5))

\* blocks.Logistics.ecoFees.formula
formula_ecoFees(ctx) == Add(Times(ctx.logisticsCost, 10), Times(ctx.co2Cost, 5))

\* The scenario catalog at construction.
ScenarioCatalog ==
    [Base |->
        [Production |-> [materialCost |-> Dec(120, 0), energyCost |-> Dec(60, 0)],
         Logistics  |-> [transportCost |-> Dec(35, 0)]],
     HighEnergyPrices |->
        [Production |-> [energyCost |-> Dec(90, 0)],
         Logistics  |-> [transportCost |-> Dec(40, 0)]]]

\* ----------------------------------------------------------------- state
VARIABLES
    scenarios,        \* the module-level scenario catalog
    scenarioName,     \* arguments of the current call of runSimulation
    maxIterations,
    threshold,
    manualOverrides,  \* an object with optional Production / Logistics; <<>> is undefined
    context,          \* the local context of the current call
    prev,             \* the snapshot taken at the start of the last pass
    i,                \* the loop counter
    state,            \* "Idle", "Iterating", "Converged" (break) or "Exhausted" (loop left)
    returned,         \* the current call has returned
    result,           \* the context it returned
    memo,             \* an earlier call kept for comparison: its arguments and result
    rows,             \* the display rows the caller obtained last from getDisplayRows
    other,            \* a second call of runSimulation, made by a concurrent caller
    inputs,           \* App: the three editable input values
    selectedScenarios,\* App: the scenarios ticked for comparison, in order
    scenarioResults   \* App: the display rows of each selected scenario, as rendered

\* What belongs to the callers of runSimulation.
callerVars == <<rows, other, inputs, selectedScenarios, scenarioResults>>

vars == <<scenarios, scenarioName, maxIterations, threshold, manualOverrides,
          context, prev, i, state, returned, result, memo, callerVars>>

\* -------------------------------------------------- JavaScript object helpers
EmptyObject == <<>>

\* A lookup that falls back to the HighEnergyPrices entry of the object.
PropOrLastEntry(obj, key) ==
    IF key \in DOMAIN obj THEN obj[key]
    ELSE IF "HighEnergyPrices" \in DOMAIN obj THEN obj.HighEnergyPrices
    ELSE EmptyObject

\* obj[key] || {}  (obj?.[key] || {} when obj is undefined, modelled as <<>>)
PropOrEmpty(obj, key) == IF key \in DOMAIN obj THEN obj[key] ELSE EmptyObject

\* A spread in which earlier sources win.
SpreadFirstWins(a, b, c) ==
    [k \in DOMAIN a \cup DOMAIN b \cup DOMAIN c |->
        IF k \in DOMAIN a THEN a[k]
        ELSE IF k \in DOMAIN b THEN b[k]
        ELSE c[k]]

\* A spread that leaves out the middle source.
SpreadWithoutSecond(a, b, c) ==
    [k \in DOMAIN a \cup DOMAIN c |-> IF k \in DOMAIN c THEN c[k] ELSE a[k]]

\* { ...a, ...b, ...c }: later spreads win.
Spread(a, b, c) ==
    [k \in DOMAIN a \cup DOMAIN b \cup DOMAIN c |->
        IF k \in DOMAIN c THEN c[k]
        ELSE IF k \in DOMAIN b THEN b[k]
        ELSE a[k]]

\* obj.key of a number-valued property: undefined when absent.
Prop(obj, key) == IF key \in DOMAIN obj THEN obj[key] ELSE NaN

NoContext == [a \in AttributeNames |-> NaN]

\* Lines 83-109 of runSimulation: the resolved initial context.
InitialContext(cat, name, overrides) ==
    LET baseProduction     == cat.Base.Production
        baseLogistics      == cat.Base.Logistics
        scenario           == PropOrEmpty(cat, name)
        scenarioProduction == PropOrEmpty(scenario, "Production")
        scenarioLogistics  == PropOrEmpty(scenario, "Logistics")
        finalProduction    == Spread(baseProduction, scenarioProduction,
                                     PropOrEmpty(overrides, "Production"))
        finalLogistics     == Spread(baseLogistics, scenarioLogistics,
                                     PropOrEmpty(overrides, "Logistics"))
    IN  [materialCost  |-> Prop(finalProduction, "materialCost"),
         energyCost    |-> Prop(finalProduction, "energyCost"),
         transportCost |-> Prop(finalLogistics, "transportCost"),
         disposalCost  |-> Zero,
         co2Cost       |-> Zero,
         logisticsCost |-> Zero,
         ecoFees       |-> Zero]

\* A pass whose third assignment goes to transportCost instead of
\* logisticsCost.
RelaxationPassWritingInput(ctx) ==
    LET c1 == [ctx EXCEPT !.disposalCost  = formula_disposalCost(ctx)]
        c2 == [c1  EXCEPT !.co2Cost       = formula_co2Cost(c1)]
        c3 == [c2  EXCEPT !.transportCost = formula_logisticsCost(c2)]
        c4 == [c3  EXCEPT !.ecoFees       = formula_ecoFees(c3)]
    IN  c4

\* A pass in which every formula reads the snapshot (Jacobi).
RelaxationPassJacobi(ctx) ==
    [ctx EXCEPT !.disposalCost  = formula_disposalCost(ctx),
                !.co2Cost       = formula_co2Cost(ctx),
                !.logisticsCost = formula_logisticsCost(ctx),
                !.ecoFees       = formula_ecoFees(ctx)]

\* Lines 114-117: one pass, each formula reading the context as it stands.
RelaxationPass(ctx) ==
    LET c1 == [ctx EXCEPT !.disposalCost  = formula_disposalCost(ctx)]
        c2 == [c1  EXCEPT !.co2Cost       = formula_co2Cost(c1)]
        c3 == [c2  EXCEPT !.logisticsCost = formula_logisticsCost(c2)]
        c4 == [c3  EXCEPT !.ecoFees       = formula_ecoFees(c3)]
    IN  c4

\* Deltas of the Production block only.
DeltasProductionOnly(ctx, snapshot) ==
    << Abs(Sub(ctx.disposalCost,  snapshot.disposalCost)),
       Abs(Sub(ctx.co2Cost,       snapshot.co2Cost)) >>

\* Lines 119-124: the deltas of the four calculated attributes.
Deltas(ctx, snapshot) ==
    << Abs(Sub(ctx.disposalCost,  snapshot.disposalCost)),
       Abs(Sub(ctx.co2Cost,       snapshot.co2Cost)),
       Abs(Sub(ctx.logisticsCost, snapshot.logisticsCost)),
       Abs(Sub(ctx.ecoFees,       snapshot.ecoFees)) >>

\* A test that accepts a maximum equal to the threshold.
ConvergesOrEqual(deltas, th) == ~Less(th, MaxOf(deltas)) /\ ~IsNaN(MaxOf(deltas))

\* A test satisfied as soon as one delta is below the threshold.
ConvergesAny(deltas, th) == \E k \in 1..Len(deltas) : Less(deltas[k], th)

\* Line 136: Math.max(...deltas) < threshold
Converges(deltas, th) == Less(MaxOf(deltas), th)

\* Lines 111-137: up to n iterations of the loop body from ctx; broke tells
\* whether the break of line 136 ended them.  The iterations are taken in two
\* halves, the second only when the first did not break, so that the
\* definition nests to a depth logarithmic in n.
RECURSIVE LoopPasses(_, _, _)
LoopPasses(ctx, n, th) ==
    IF n = 0 THEN [context |-> ctx, broke |-> FALSE]
    ELSE IF n = 1
    THEN LET next == RelaxationPass(ctx)
         IN  [context |-> next, broke |-> Converges(Deltas(next, ctx), th)]
    ELSE LET first == LoopPasses(ctx, n \div 2, th)
         IN  IF first.broke THEN first
             ELSE LoopPasses(first.context, n - (n \div 2), th)

\* Lines 111-137 as a function: the context the loop leaves behind, from loop
\* counter k on.
Loop(ctx, k, mi, th) ==
    LoopPasses(ctx, IF k < mi THEN mi - k ELSE 0, th).context

\* runSimulation(scenarioName, maxIterations, threshold, manualOverrides) as
\* one synchronous call, lines 76-145.
runSimulation(cat, name, mi, th, overrides) ==
    Loop(InitialContext(cat, name, overrides), 0, mi, th)

\* Rows that start with Energy Cost and Material Cost exchanged.
getDisplayRowsSwapped(ctx) ==
    << [label |-> "Energy Cost",    value |-> ctx.energyCost],
       [label |-> "Material Cost",  value |-> ctx.materialCost],
       [label |-> "Disposal Cost",  value |-> ctx.disposalCost],
       [label |-> "CO2 Cost",       value |-> ctx.co2Cost],
       [label |-> "Transport Cost", value |-> ctx.transportCost],
       [label |-> "Logistics Cost", value |-> ctx.logisticsCost],
       [label |-> "Eco Fees",       value |-> ctx.ecoFees] >>

\* getDisplayRows, lines 150-161.
getDisplayRows(ctx) ==
    << [label |-> "Material Cost",  value |-> ctx.materialCost],
       [label |-> "Energy Cost",    value |-> ctx.energyCost],
       [label |-> "Disposal Cost",  value |-> ctx.disposalCost],
       [label |-> "CO2 Cost",       value |-> ctx.co2Cost],
       [label |-> "Transport Cost", value |-> ctx.transportCost],
       [label |-> "Logistics Cost", value |-> ctx.logisticsCost],
       [label |-> "Eco Fees",       value |-> ctx.ecoFees] >>

\* ------------------------------------------------------------------- App
\* Object.keys(scenarios), in declaration order.
scenarioKeys == <<"Base", "HighEnergyPrices">>

\* The arguments App passes to runSimulation at line 69.
AppMaxIterations == 100

AppThreshold == Dec(10, 2)

\* A render that writes the inputs over the copies of every scenario.
AppOverridesEveryScenario(cat, scenario, inp) ==
    LET prod == PropOrEmpty(cat[scenario], "Production")
        logi == PropOrEmpty(cat[scenario], "Logistics")
        wr(obj) == [k \in DOMAIN obj |->
                      IF k \in DOMAIN inp THEN inp[k] ELSE obj[k]]
    IN  [Production |-> wr(prod), Logistics |-> wr(logi)]

\* Lines 53-66: copies of the scenario's blocks, the inputs written over the
\* fields the Base copy has.
AppOverrides(cat, scenario, inp) ==
    LET prod == PropOrEmpty(cat[scenario], "Production")
        logi == PropOrEmpty(cat[scenario], "Logistics")
        wr(obj) == [k \in DOMAIN obj |->
                      IF scenario = "Base" /\ k \in DOMAIN inp THEN inp[k] ELSE obj[k]]
    IN  [Production |-> wr(prod), Logistics |-> wr(logi)]

\* A render that writes the inputs into the catalog's own Base objects.
ScenariosWrittenThrough(cat, sel, inp) ==
    IF \E k \in 1..Len(sel) : sel[k] = "Base"
    THEN [cat EXCEPT !.Base = AppOverrides(cat, "Base", inp)]
    ELSE cat

\* The catalog after a render: lines 53-54 spread the scenario's blocks into
\* new objects, so the writes of lines 57-65 do not reach the catalog.
ScenariosAfterRender(cat, sel, inp) == cat

\* A render that lists the runs in the reverse order of the selection.
RenderRunsReversed(cat, sel, inp) ==
    [k \in 1..Len(sel) |->
        Loop(InitialContext(cat, sel[Len(sel) + 1 - k],
                            AppOverrides(cat, sel[Len(sel) + 1 - k], inp)),
             0, AppMaxIterations, AppThreshold)]

\* Lines 52-74: the calls of runSimulation of a render, one per selected
\* scenario.
RenderRuns(cat, sel, inp) ==
    [k \in 1..Len(sel) |->
        Loop(InitialContext(cat, sel[k], AppOverrides(cat, sel[k], inp)),
             0, AppMaxIterations, AppThreshold)]

\* Lines 52-74: scenarioResults, the display rows of each call.
RowsOf(runs) == [k \in DOMAIN runs |-> getDisplayRows(runs[k])]

\* Line 76: the labels of the first result, none when there is no result.
attributeLabels(results) ==
    IF Len(results) >= 1
    THEN [idx \in 1..Len(results[1]) |-> results[1][idx].label]
    ELSE <<>>

\* Line 81 reads a row that does not exist.
ChartAccessFails(sel, results) ==
    \E idx \in 1..Len(attributeLabels(results)), sIdx \in 1..Len(sel) :
        \/ sIdx > Len(results)
        \/ idx > Len(results[sIdx])

\* Chart rows that show the first result's values under every scenario.
chartDataFirstResultOnly(sel, results) ==
    [idx \in 1..Len(attributeLabels(results)) |->
        [key \in {"name"} \cup {sel[k] : k \in 1..Len(sel)} |->
            IF key = "name"
            THEN attributeLabels(results)[idx]
            ELSE results[1][idx].value]]

\* Lines 78-84: one entry per label, holding the label under "name" and, under
\* each selected scenario's name, the value of that scenario's row.
chartData(sel, results) ==
    [idx \in 1..Len(attributeLabels(results)) |->
        [key \in {"name"} \cup {sel[k] : k \in 1..Len(sel)} |->
            IF key = "name"
            THEN attributeLabels(results)[idx]
            ELSE LET sIdx == CHOOSE k \in 1..Len(sel) :
                                /\ sel[k] = key
                                /\ \A j \in (k + 1)..Len(sel) : sel[j] # key
                 IN  results[sIdx][idx].value]]

\* Lines 39-46: the initial inputs.
InitialInputs ==
    [materialCost  |-> ScenarioCatalog.Base.Production.materialCost,
     energyCost    |-> ScenarioCatalog.Base.Production.energyCost,
     transportCost |-> ScenarioCatalog.Base.Logistics.transportCost]

\* The state of a call that has not been made.
NoRun == [scenarioName |-> "Base", maxIterations |-> 0, threshold |-> Zero,
          manualOverrides |-> <<>>, context |-> NoContext, prev |-> NoContext,
          i |-> 0, state |-> "Idle", returned |-> FALSE, result |-> NoContext]

\* ----------------------------------------------------------------- inputs
ScenarioNames == {"Base", "HighEnergyPrices", "Unknown"}

MaxIterationsValues == {0, 1, 2, 100}

\* 0, 0.001, 96 and -1
Thresholds == {Dec(0, 0), Dec(10, 2), Dec(96, 0), Dec(0 - 1, 0)}

\* All partial maps from the names in ks to the values of vals[k].
PartialMaps(ks, vals) ==
    UNION {[d -> UNION {vals[k] : k \in d}] : d \in SUBSET ks}

OverrideValues ==
    [materialCost  |-> {Dec(0, 0), Dec(100, 0)},
     energyCost    |-> {Dec(0, 0), Dec(75, 0)},
     transportCost |-> {Dec(0, 0)}]

WellTyped(m) == \A k \in DOMAIN m : m[k] \in OverrideValues[k]

ProductionOverrides ==
    {m \in PartialMaps({"materialCost", "energyCost"}, OverrideValues) : WellTyped(m)}

LogisticsOverrides ==
    {m \in PartialMaps({"transportCost"}, OverrideValues) : WellTyped(m)}

\* undefined, or an object with any of the two blocks present.
ManualOverrides ==
    {<<>>}
    \cup {[Production |-> p] : p \in ProductionOverrides}
    \cup {[Logistics |-> l] : l \in LogisticsOverrides}
    \cup {[Production |-> p, Logistics |-> l] :
            p \in ProductionOverrides, l \in LogisticsOverrides}

\* ---------------------------------------------------------------- actions
NoMemo == [set |-> FALSE, scenarioName |-> "Base", maxIterations |-> 0,
           threshold |-> Zero, manualOverrides |-> <<>>, result |-> NoContext,
           between |-> FALSE]

\* The caller's record of the kept call notes that a call with other arguments
\* has been made since.
NoteCall(m, name, mi, th, overrides) ==
    IF m.set /\ <<name, mi, th, overrides>> #
                <<m.scenarioName, m.maxIterations, m.threshold, m.manualOverrides>>
    THEN [m EXCEPT !.between = TRUE]
    ELSE m

Init ==
    /\ scenarios = ScenarioCatalog
    /\ scenarioName = "Base"
    /\ maxIterations = 0
    /\ threshold = Zero
    /\ manualOverrides = <<>>
    /\ context = NoContext
    /\ prev = NoContext
    /\ i = 0
    /\ state = "Idle"
    /\ returned = FALSE
    /\ result = NoContext
    /\ memo = NoMemo
    /\ rows = <<>>
    /\ other = NoRun
    /\ inputs = InitialInputs
    /\ selectedScenarios = scenarioKeys
    /\ scenarioResults = RowsOf(RenderRuns(ScenarioCatalog, scenarioKeys, InitialInputs))

\* An entry that creates no fresh context: the calculated attributes keep the
\* values the previous call left behind.
CallKeepingContext(name, mi, th, overrides) ==
    /\ state = "Idle" \/ returned
    /\ scenarioName' = name
    /\ maxIterations' = mi
    /\ threshold' = th
    /\ manualOverrides' = overrides
    /\ context' = [a \in AttributeNames |->
                     IF a \in CalculatedNames /\ state # "Idle"
                     THEN context[a]
                     ELSE InitialContext(scenarios, name, overrides)[a]]
    /\ prev' = NoContext
    /\ i' = 0
    /\ state' = "Iterating"
    /\ returned' = FALSE
    /\ result' = NoContext
    /\ memo' = NoteCall(memo, name, mi, th, overrides)
    /\ UNCHANGED <<scenarios, callerVars>>

\* runSimulation is entered: lines 83-109, up to the loop head.
Call(name, mi, th, overrides) ==
    /\ state = "Idle" \/ returned
    /\ scenarioName' = name
    /\ maxIterations' = mi
    /\ threshold' = th
    /\ manualOverrides' = overrides
    /\ context' = InitialContext(scenarios, name, overrides)
    /\ prev' = NoContext
    /\ i' = 0
    /\ state' = "Iterating"
    /\ returned' = FALSE
    /\ result' = NoContext
    /\ memo' = NoteCall(memo, name, mi, th, overrides)
    /\ UNCHANGED <<scenarios, callerVars>>

\* A loop that evaluates the convergence test at its head, before the body,
\* against the calculated values the context was created with.
PassTestingFirst ==
    /\ state = "Iterating"
    /\ i < maxIterations
    /\ LET snapshot == IF prev = NoContext
                       THEN InitialContext(scenarios, scenarioName, manualOverrides)
                       ELSE prev
       IN  IF Converges(Deltas(context, snapshot), threshold)
           THEN /\ state' = "Converged"
                /\ UNCHANGED <<context, prev, i>>
           ELSE /\ state' = "Iterating"
                /\ prev' = context
                /\ context' = RelaxationPass(context)
                /\ i' = i + 1
    /\ UNCHANGED <<scenarios, scenarioName, maxIterations, threshold,
                   manualOverrides, returned, result, memo, callerVars>>

\* A loop whose condition is i <= maxIterations.
PassOffByOne ==
    /\ state = "Iterating"
    /\ i <= maxIterations
    /\ prev' = context
    /\ context' = RelaxationPass(context)
    /\ IF Converges(Deltas(RelaxationPass(context), context), threshold)
       THEN state' = "Converged" /\ i' = i
       ELSE state' = "Iterating" /\ i' = i + 1
    /\ UNCHANGED <<scenarios, scenarioName, maxIterations, threshold,
                   manualOverrides, returned, result, memo, callerVars>>

\* One iteration of the loop body, lines 111-137, convergence test included.
Pass ==
    /\ state = "Iterating"
    /\ i < maxIterations
    /\ prev' = context
    /\ context' = RelaxationPass(context)
    /\ IF Converges(Deltas(RelaxationPass(context), context), threshold)
       THEN state' = "Converged" /\ i' = i
       ELSE state' = "Iterating" /\ i' = i + 1
    /\ UNCHANGED <<scenarios, scenarioName, maxIterations, threshold,
                   manualOverrides, returned, result, memo, callerVars>>

\* The loop condition i < maxIterations fails: the loop is left without break.
LoopExit ==
    /\ state = "Iterating"
    /\ ~(i < maxIterations)
    /\ state' = "Exhausted"
    /\ UNCHANGED <<scenarios, scenarioName, maxIterations, threshold,
                   manualOverrides, context, prev, i, returned, result, memo, callerVars>>

\* A return of the snapshot instead of the context.
ReturnSnapshot ==
    /\ state \in {"Converged", "Exhausted"}
    /\ ~returned
    /\ returned' = TRUE
    /\ result' = prev
    /\ UNCHANGED <<scenarios, scenarioName, maxIterations, threshold,
                   manualOverrides, context, prev, i, state, memo, callerVars>>

\* A return that adds a flag telling how the loop ended.
ReturnWithFlag ==
    /\ state \in {"Converged", "Exhausted"}
    /\ ~returned
    /\ returned' = TRUE
    /\ result' = [a \in AttributeNames \cup {"converged"} |->
                    IF a = "converged" THEN Dec(IF state = "Converged" THEN 1 ELSE 0, 0)
                    ELSE context[a]]
    /\ UNCHANGED <<scenarios, scenarioName, maxIterations, threshold,
                   manualOverrides, context, prev, i, state, memo, callerVars>>

\* Line 144: return context
Return ==
    /\ state \in {"Converged", "Exhausted"}
    /\ ~returned
    /\ returned' = TRUE
    /\ result' = context
    /\ UNCHANGED <<scenarios, scenarioName, maxIterations, threshold,
                   manualOverrides, context, prev, i, state, memo, callerVars>>

Next ==
    \/ \E name \in ScenarioNames, mi \in MaxIterationsValues,
          th \in Thresholds, overrides \in ManualOverrides :
            Call(name, mi, th, overrides)
    \/ Pass
    \/ LoopExit
    \/ Return

Spec == Init /\ [][Next]_vars

TypeOK ==
    /\ scenarios = ScenarioCatalog
    /\ state \in {"Idle", "Iterating", "Converged", "Exhausted"}
    /\ i \in 0..maxIterations

\* ------------------------------------------ two calls kept side by side
PairMaxIterations == {0, 2, 100}

\* 0.001 and 96
PairThresholds == {Dec(10, 2), Dec(96, 0)}

PairOverrides == {<<>>, [Production |-> [energyCost |-> Dec(75, 0)]]}

\* The caller keeps the arguments and the result of a call that has returned.
Remember ==
    /\ returned
    /\ memo' = [set |-> TRUE, scenarioName |-> scenarioName,
                maxIterations |-> maxIterations, threshold |-> threshold,
                manualOverrides |-> manualOverrides, result |-> result,
                between |-> FALSE]
    /\ UNCHANGED <<scenarios, scenarioName, maxIterations, threshold,
                   manualOverrides, context, prev, i, state, returned, result,
                   callerVars>>

NextPair ==
    \/ \E name \in ScenarioNames, mi \in PairMaxIterations,
          th \in PairThresholds, overrides \in PairOverrides :
            Call(name, mi, th, overrides)
    \/ Pass
    \/ LoopExit
    \/ Return
    \/ Remember

SpecPair == Init /\ [][NextPair]_vars

\* ------------------------------------------------ calls that run to the end
\* Iteration caps of the calls that are followed under fairness.
LiveMaxIterations == {0, 1, MaxPasses}

\* Overrides that resolve the three inputs to 0.
ZeroOverrides ==
    [Production |-> [materialCost |-> Dec(0, 0), energyCost |-> Dec(0, 0)],
     Logistics  |-> [transportCost |-> Dec(0, 0)]]

LiveOverrides == PairOverrides \cup {ZeroOverrides}

NextLive ==
    \/ \E name \in ScenarioNames, mi \in LiveMaxIterations,
          th \in Thresholds, overrides \in LiveOverrides :
            Call(name, mi, th, overrides)
    \/ Pass
    \/ LoopExit
    \/ Return

\* A loop iteration as it shows on the loop counter and the control state: the
\* steps of Pass are the steps of the model that satisfy it, and it is enabled
\* where Pass is.
PassStep ==
    /\ state = "Iterating"
    /\ i < maxIterations
    /\ \/ state' = "Converged" /\ i' = i
       \/ state' = "Iterating" /\ i' = i + 1

\* runSimulation is synchronous: once entered, the loop and the return are
\* executed without suspension.
SpecLive ==
    /\ Init
    /\ [][NextLive]_vars
    /\ WF_<<state, i>>(PassStep)
    /\ WF_vars(LoopExit)
    /\ WF_vars(Return)

\* ------------------------------------------------- the caller's display rows
\* A projection that clears the calculated values of the context it is given.
ProjectClearingContext ==
    /\ returned
    /\ rows' = getDisplayRows(result)
    /\ result' = [a \in AttributeNames |->
                    IF a \in CalculatedNames THEN Zero ELSE result[a]]
    /\ UNCHANGED <<scenarios, scenarioName, maxIterations, threshold,
                   manualOverrides, context, prev, i, state, returned, memo,
                   other, inputs, selectedScenarios, scenarioResults>>

\* The caller passes the returned context to getDisplayRows (App, line 68).
Project ==
    /\ returned
    /\ rows' = getDisplayRows(result)
    /\ UNCHANGED <<scenarios, scenarioName, maxIterations, threshold,
                   manualOverrides, context, prev, i, state, returned, result,
                   memo, other, inputs, selectedScenarios, scenarioResults>>

RowsMaxIterations == {0, 2, 100}

NextRows ==
    \/ \E name \in ScenarioNames, mi \in RowsMaxIterations,
          overrides \in PairOverrides :
            Call(name, mi, AppThreshold, overrides)
    \/ Pass
    \/ LoopExit
    \/ Return
    \/ Project

SpecRows == Init /\ [][NextRows]_vars

\* ------------------------------------------------- two calls side by side
\* What the first call leaves alone is left alone by the second one too.
firstCallVars == <<scenarioName, maxIterations, threshold, manualOverrides,
                   context, prev, i, state, returned, result>>

OtherCall(name, mi, th, overrides) ==
    /\ other.state = "Idle" \/ other.returned
    /\ other' = [scenarioName |-> name, maxIterations |-> mi, threshold |-> th,
                 manualOverrides |-> overrides,
                 context |-> InitialContext(scenarios, name, overrides),
                 prev |-> NoContext, i |-> 0, state |-> "Iterating",
                 returned |-> FALSE, result |-> NoContext]
    /\ UNCHANGED <<scenarios, firstCallVars, memo, rows, inputs,
                   selectedScenarios, scenarioResults>>

\* A pass of the second call on a context object shared with the first call.
OtherPassSharedContext ==
    /\ other.state = "Iterating"
    /\ other.i < other.maxIterations
    /\ LET next == RelaxationPass(context)
           conv == Converges(Deltas(next, context), other.threshold)
       IN  /\ context' = next
           /\ other' = [other EXCEPT !.prev = context,
                                     !.context = next,
                                     !.state = IF conv THEN "Converged" ELSE "Iterating",
                                     !.i = IF conv THEN @ ELSE @ + 1]
    /\ UNCHANGED <<scenarios, scenarioName, maxIterations, threshold,
                   manualOverrides, prev, i, state, returned, result, memo, rows,
                   inputs, selectedScenarios, scenarioResults>>

OtherPass ==
    /\ other.state = "Iterating"
    /\ other.i < other.maxIterations
    /\ LET next == RelaxationPass(other.context)
           conv == Converges(Deltas(next, other.context), other.threshold)
       IN  other' = [other EXCEPT !.prev = other.context,
                                  !.context = next,
                                  !.state = IF conv THEN "Converged" ELSE "Iterating",
                                  !.i = IF conv THEN @ ELSE @ + 1]
    /\ UNCHANGED <<scenarios, firstCallVars, memo, rows, inputs,
                   selectedScenarios, scenarioResults>>

OtherLoopExit ==
    /\ other.state = "Iterating"
    /\ ~(other.i < other.maxIterations)
    /\ other' = [other EXCEPT !.state = "Exhausted"]
    /\ UNCHANGED <<scenarios, firstCallVars, memo, rows, inputs,
                   selectedScenarios, scenarioResults>>

OtherReturn ==
    /\ other.state \in {"Converged", "Exhausted"}
    /\ ~other.returned
    /\ other' = [other EXCEPT !.returned = TRUE, !.result = other.context]
    /\ UNCHANGED <<scenarios, firstCallVars, memo, rows, inputs,
                   selectedScenarios, scenarioResults>>

TwoScenarios == {"Base", "HighEnergyPrices"}

TwoMaxIterations == {2, 100}

NextTwo ==
    \/ \E name \in TwoScenarios, mi \in TwoMaxIterations :
            Call(name, mi, AppThreshold, <<>>)
    \/ Pass
    \/ LoopExit
    \/ Return
    \/ \E name \in TwoScenarios, mi \in TwoMaxIterations :
            OtherCall(name, mi, AppThreshold, <<>>)
    \/ OtherPass
    \/ OtherLoopExit
    \/ OtherReturn

SpecTwo == Init /\ [][NextTwo]_vars

\* --------------------------------- two calls that differ in transportCost
\* 0.001 and 0.03
TransportThresholds == {Dec(10, 2), Dec(300, 2)}

TransportOverrides == {<<>>, [Logistics |-> [transportCost |-> Dec(0, 0)]]}

NextTransport ==
    \/ \E mi \in TwoMaxIterations, th \in TransportThresholds,
          overrides \in TransportOverrides :
            Call("Base", mi, th, overrides)
    \/ Pass
    \/ LoopExit
    \/ Return
    \/ \E mi \in TwoMaxIterations, th \in TransportThresholds,
          overrides \in TransportOverrides :
            OtherCall("Base", mi, th, overrides)
    \/ OtherPass
    \/ OtherLoopExit
    \/ OtherReturn

SpecTransport == Init /\ [][NextTransport]_vars

\* ------------------------------------------------------------ App handlers
AppInputValues ==
    [materialCost  |-> {Dec(120, 0), Dec(100, 0), Dec(0, 0)},
     energyCost    |-> {Dec(60, 0), Dec(75, 0)},
     transportCost |-> {Dec(35, 0), Dec(0, 0)}]

\* Lines 48-50, and the render that follows the state change.
onInputChange(key, val) ==
    LET inp  == [inputs EXCEPT ![key] = val]
        runs == RenderRuns(scenarios, selectedScenarios, inp)
    IN  /\ inputs' = inp
        /\ scenarioResults' = RowsOf(runs)
        /\ scenarios' = ScenariosAfterRender(scenarios, selectedScenarios, inp)
        /\ UNCHANGED <<firstCallVars, memo, rows, other, selectedScenarios>>

\* A toggle that appends the scenario whether it is selected or not.
ToggledAlwaysAppending(prev_, scenario) == Append(prev_, scenario)

\* Lines 87-91: the updater of setSelectedScenarios.
Toggled(prev_, scenario) ==
    IF \E k \in 1..Len(prev_) : prev_[k] = scenario
    THEN SelectSeq(prev_, LAMBDA s : s # scenario)
    ELSE Append(prev_, scenario)

\* Lines 86-92, and the render that follows the state change.
handleScenarioToggle(scenario) ==
    LET sel  == Toggled(selectedScenarios, scenario)
        runs == RenderRuns(scenarios, sel, inputs)
    IN  /\ selectedScenarios' = sel
        /\ scenarioResults' = RowsOf(runs)
        /\ scenarios' = ScenariosAfterRender(scenarios, sel, inputs)
        /\ UNCHANGED <<firstCallVars, memo, rows, other, inputs>>

AppCallMaxIterations == {0, 100}

NextApp ==
    \/ \E key \in DOMAIN AppInputValues :
          \E val \in AppInputValues[key] : onInputChange(key, val)
    \/ \E k \in 1..Len(scenarioKeys) : handleScenarioToggle(scenarioKeys[k])
    \/ \E mi \in AppCallMaxIterations, overrides \in PairOverrides :
            Call("Base", mi, AppThreshold, overrides)
    \/ Pass
    \/ LoopExit
    \/ Return

SpecApp == Init /\ [][NextApp]_vars

\* ------------------------------------------- calls with a non-finite override
NonFiniteOverrides ==
    { [Production |-> [energyCost |-> NaN]],
      [Logistics |-> [transportCost |-> NaN]],
      [Production |-> [materialCost |-> NaN, energyCost |-> Dec(75, 0)]] }

NonFiniteMaxIterations == {0, 1, 2}

NextNonFinite ==
    \/ \E name \in ScenarioNames, mi \in NonFiniteMaxIterations,
          th \in PairThresholds, overrides \in NonFiniteOverrides \cup PairOverrides :
            Call(name, mi, th, overrides)
    \/ Pass
    \/ LoopExit
    \/ Return

SpecNonFinite == Init /\ [][NextNonFinite]_vars

\* ----------------------------------------------------------------- claims
\* The loop head is reached and no pass has been executed yet.
BeforeFirstPass == state = "Iterating" /\ i = 0

\* The block that declares attribute a.
BlockOf(a) == CHOOSE b \in BlockNames : a \in AttributesOf(b)

Known(name) == name \in DOMAIN ScenarioCatalog

\* A manual override is given for attribute a.
Overridden(mo, a) == BlockOf(a) \in DOMAIN mo /\ a \in DOMAIN mo[BlockOf(a)]

\* The named scenario defines a value for attribute a.
ScenarioDefines(name, a) ==
    /\ Known(name)
    /\ BlockOf(a) \in DOMAIN ScenarioCatalog[name]
    /\ a \in DOMAIN ScenarioCatalog[name][BlockOf(a)]

\* manual override > named scenario value > Base scenario value
Resolved(name, mo, a) ==
    IF Overridden(mo, a) THEN mo[BlockOf(a)][a]
    ELSE IF ScenarioDefines(name, a) THEN ScenarioCatalog[name][BlockOf(a)][a]
    ELSE ScenarioCatalog.Base[BlockOf(a)][a]

NoOverrides(mo) == \A a \in InputNames : ~Overridden(mo, a)

\* C1: for each input attribute separately, the value in the initial context
\* is the manual override when one is given for it, otherwise the named
\* scenario's value when it defines one, otherwise the Base value.
C1_OverridePrecedence ==
    BeforeFirstPass =>
        \A a \in InputNames :
            context[a] = Resolved(scenarioName, manualOverrides, a)

\* The three sources are used at once: energyCost from the override (the
\* scenario says 90), transportCost from the scenario, materialCost from Base.
C1_Witness ==
    /\ BeforeFirstPass
    /\ scenarioName = "HighEnergyPrices"
    /\ Overridden(manualOverrides, "energyCost")
    /\ ~Overridden(manualOverrides, "materialCost")
    /\ ~Overridden(manualOverrides, "transportCost")
    /\ context.energyCost = Dec(75, 0)
    /\ context.transportCost = Dec(40, 0)
    /\ context.materialCost = Dec(120, 0)

\* C2: a call with a scenario identifier that is not in the catalog returns,
\* and what it returns is the context a call with "Base", no overrides and the
\* same maxIterations and threshold returns.
C2_UnknownScenarioIsBase ==
    ( /\ memo.set
      /\ returned
      /\ memo.scenarioName = "Base"
      /\ ~Known(scenarioName)
      /\ NoOverrides(memo.manualOverrides)
      /\ NoOverrides(manualOverrides)
      /\ memo.maxIterations = maxIterations
      /\ memo.threshold = threshold )
    => result = memo.result

\* An unknown scenario has run to convergence after a Base call with the same
\* arguments was kept.
C2_Witness ==
    /\ memo.set
    /\ returned
    /\ memo.scenarioName = "Base"
    /\ scenarioName = "Unknown"
    /\ NoOverrides(memo.manualOverrides)
    /\ NoOverrides(manualOverrides)
    /\ memo.maxIterations = maxIterations
    /\ memo.threshold = threshold
    /\ state = "Converged"
    /\ maxIterations = 100

\* C3: with no manual overrides, HighEnergyPrices starts from materialCost 120
\* (taken from Base, the scenario does not specify it), energyCost 90 and
\* transportCost 40.
C3_HighEnergyPricesStart ==
    (BeforeFirstPass /\ scenarioName = "HighEnergyPrices" /\ NoOverrides(manualOverrides))
    => /\ context.materialCost = Dec(120, 0)
       /\ context.energyCost = Dec(90, 0)
       /\ context.transportCost = Dec(40, 0)

C3_Witness ==
    /\ BeforeFirstPass
    /\ scenarioName = "HighEnergyPrices"
    /\ manualOverrides = <<>>
    /\ "materialCost" \notin DOMAIN scenarios.HighEnergyPrices.Production
    /\ context.materialCost = scenarios.Base.Production.materialCost

\* C4: before the first pass the context has an entry for each of the seven
\* attributes of the model, a number for each input attribute and 0 for each
\* calculated attribute, whatever the scenario identifier and the overrides.
C4_InitialContextComplete ==
    BeforeFirstPass =>
        /\ DOMAIN context = AttributeNames
        /\ Cardinality(AttributeNames) = 7
        /\ \A a \in InputNames : ~IsNaN(context[a]) /\ Len(context[a].mag) = NLimbs
        /\ \A a \in CalculatedNames : context[a] = Zero

\* A second call starts after an earlier call left non-zero calculated values,
\* with an unknown scenario and a partial override.
C4_Witness ==
    /\ BeforeFirstPass
    /\ ~Known(scenarioName)
    /\ Overridden(manualOverrides, "materialCost")
    /\ ~Overridden(manualOverrides, "energyCost")
    /\ result = NoContext
    /\ prev = NoContext
    /\ context.disposalCost = Zero

\* C5: with maxIterations = 0 no pass is executed and the returned context is
\* the resolved inputs with the four calculated attributes equal to 0.
C5_ZeroIterations ==
    (returned /\ maxIterations = 0) =>
        /\ i = 0
        /\ prev = NoContext
        /\ \A a \in InputNames : result[a] = Resolved(scenarioName, manualOverrides, a)
        /\ \A a \in CalculatedNames : result[a] = Zero

C5_Witness ==
    /\ returned
    /\ maxIterations = 0
    /\ state = "Exhausted"
    /\ scenarioName = "HighEnergyPrices"
    /\ Overridden(manualOverrides, "materialCost")
    /\ threshold = Dec(96, 0)
    /\ result.energyCost = Dec(90, 0)
    /\ result.ecoFees = Zero

\* The resolved inputs with the calculated attributes at 0.
ResolvedContext(name, mo) ==
    [a \in AttributeNames |->
        IF a \in InputNames THEN Resolved(name, mo, a) ELSE Zero]

\* The context after n passes over ctx, taken in two halves (passes over the
\* undefined context leave it undefined).
RECURSIVE Iterate(_, _)
Iterate(ctx, n) ==
    IF n = 0 THEN ctx
    ELSE IF n = 1 THEN RelaxationPass(ctx)
    ELSE LET mid == Iterate(ctx, n \div 2)
         IN  IF mid = NoContext THEN NoContext
             ELSE Iterate(mid, n - (n \div 2))

\* A pass has been executed in the current call.
PassDone == prev # NoContext

\* Every calculated attribute moved by strictly less than the threshold.
AllBelow(ctx, snapshot, th) ==
    \A a \in CalculatedNames : Less(Abs(Sub(ctx[a], snapshot[a])), th)

\* C6: after a pass the run is Converged exactly when the largest absolute
\* change of the four calculated attributes since the snapshot is strictly
\* less than threshold; a largest change equal to threshold does not stop it.
C6_ConvergedIffBelowThreshold ==
    PassDone => (state = "Converged" <=> AllBelow(context, prev, threshold))

\* The largest change of the first pass equals the threshold 96 and the run
\* goes on.
C6_Witness ==
    /\ PassDone
    /\ state = "Iterating"
    /\ i = 1
    /\ threshold = Dec(96, 0)
    /\ Abs(Sub(context.disposalCost, prev.disposalCost)) = threshold
    /\ \A a \in CalculatedNames :
         ~Less(threshold, Abs(Sub(context[a], prev[a])))

\* None of the first n passes of a run from ctx passes the convergence test.
RECURSIVE NoPassConverges(_, _, _)
NoPassConverges(ctx, n, th) ==
    \/ n = 0
    \/ LET next == RelaxationPass(ctx)
       IN  /\ ~AllBelow(next, ctx, th)
           /\ NoPassConverges(next, n - 1, th)

\* C7: when none of the first maxIterations passes satisfies the convergence
\* test, the call returns, as Exhausted, the context as it stands after pass
\* number maxIterations.
C7_ExhaustedReturnsLastContext ==
    LET start == ResolvedContext(scenarioName, manualOverrides)
    IN  ( /\ returned
          /\ NoPassConverges(start, maxIterations, threshold) )
        => /\ state = "Exhausted"
           /\ i = maxIterations
           /\ result = Iterate(start, maxIterations)

\* Base with two passes allowed and threshold 0.001: returned after pass 2
\* with 106.8, 11.34, 39.04 and 4.471.
C7_Witness ==
    /\ returned
    /\ state = "Exhausted"
    /\ maxIterations = 2
    /\ i = 2
    /\ scenarioName = "Base"
    /\ NoOverrides(manualOverrides)
    /\ threshold = Dec(10, 2)
    /\ result.disposalCost = Dec(10680, 1)
    /\ result.co2Cost = Dec(1134, 1)
    /\ result.logisticsCost = Dec(3904, 1)
    /\ result.ecoFees = Dec(44710, 2)

\* |x - y| < th
Within(x, y, th) == Less(Abs(Sub(x, y)), th)

\* C8: in a context returned by a run that stopped as Converged the four
\* equations hold within threshold.
C8_FixedPointWithinThreshold ==
    (returned /\ state = "Converged") =>
        /\ Within(result.disposalCost,
                  Add(Times(result.materialCost, 80), result.co2Cost), threshold)
        /\ Within(result.co2Cost,
                  Add(Times(result.energyCost, 10), Times(result.disposalCost, 5)),
                  threshold)
        /\ Within(result.logisticsCost,
                  Add(result.transportCost, result.ecoFees), threshold)
        /\ Within(result.ecoFees,
                  Add(Times(result.logisticsCost, 10), Times(result.co2Cost, 5)),
                  threshold)

\* A converged run of several passes whose disposalCost equation is not met
\* exactly.
C8_Witness ==
    /\ returned
    /\ state = "Converged"
    /\ i >= 3
    /\ threshold = Dec(10, 2)
    /\ result.disposalCost #
         Add(Times(result.materialCost, 80), result.co2Cost)
    /\ result.logisticsCost # Add(result.transportCost, result.ecoFees)

\* The closed form of the four equations, cleared of denominators:
\*   95 * co2Cost    = 10 * energyCost + 4 * materialCost
\*   disposalCost    = 0.8 * materialCost + co2Cost
\*   1710 * ecoFees  = 190 * transportCost + 10 * energyCost + 4 * materialCost
\*   logisticsCost   = transportCost + ecoFees
\* and |x - x*| < tol written as |q * x - p| < q * tol for x* = p / q.
\* tol95 is 95 * tol and tol1710 is 1710 * tol.
MatchesClosedForm(ctx, tol95, tol1710) ==
    LET s == Add(MulInt(ctx.energyCost, 10), MulInt(ctx.materialCost, 4))
        u == Add(MulInt(ctx.transportCost, 190), s)
    IN  /\ Within(MulInt(ctx.co2Cost, 95), s, tol95)
        /\ Within(MulInt(Sub(ctx.disposalCost, Times(ctx.materialCost, 80)), 95),
                  s, tol95)
        /\ Within(MulInt(ctx.ecoFees, 1710), u, tol1710)
        /\ Within(MulInt(Sub(ctx.logisticsCost, ctx.transportCost), 1710),
                  u, tol1710)

\* The end-to-end run: "Base", the defaults, threshold 0.001, 100 iterations.
EndToEndRun ==
    /\ returned
    /\ scenarioName = "Base"
    /\ NoOverrides(manualOverrides)
    /\ threshold = Dec(10, 2)
    /\ maxIterations = 100

\* C9 as stated: every calculated attribute of the end-to-end run is within
\* 1e-6 of the closed-form solution.
C9_ClosedFormWithin1e6 ==
    EndToEndRun => MatchesClosedForm(result, Dec(95, 3), Dec(1710, 3))

\* C9 as amended: every calculated attribute of the end-to-end run is within
\* 1e-4 of the closed-form solution.
C9_ClosedFormWithin1e4 ==
    EndToEndRun => MatchesClosedForm(result, Dec(95, 2), Dec(1710, 2))

\* The end-to-end run has returned, converged in its sixth pass, from the
\* defaults 120, 60 and 35.
C9_Witness ==
    /\ EndToEndRun
    /\ state = "Converged"
    /\ i = 5
    /\ result.materialCost = Dec(120, 0)
    /\ result.energyCost = Dec(60, 0)
    /\ result.transportCost = Dec(35, 0)
    /\ ~MatchesClosedForm(result, Dec(95, 3), Dec(1710, 3))

\* C10: two calls with the same scenario identifier, maxIterations, threshold
\* and manual overrides return the same context, whatever calls were made
\* before or in between.
C10_Deterministic ==
    ( /\ memo.set
      /\ returned
      /\ memo.scenarioName = scenarioName
      /\ memo.maxIterations = maxIterations
      /\ memo.threshold = threshold
      /\ memo.manualOverrides = manualOverrides )
    => result = memo.result

\* The kept call is repeated after a call with other arguments was made in
\* between, and both executed passes.
C10_Witness ==
    /\ memo.set
    /\ memo.between
    /\ returned
    /\ memo.scenarioName = scenarioName
    /\ memo.maxIterations = maxIterations
    /\ memo.threshold = threshold
    /\ memo.manualOverrides = manualOverrides
    /\ scenarioName = "HighEnergyPrices"
    /\ manualOverrides # <<>>
    /\ PassDone
    /\ result = memo.result

\* The passes executed so far in the current call.
Passes == IF state = "Converged" THEN i + 1 ELSE i

\* The largest change of the four calculated attributes between two contexts.
MaxDelta(ctx, snapshot) == MaxOf(Deltas(ctx, snapshot))

\* C11: for every executed pass k >= 2 the maximum delta of pass k is less
\* than or equal to the maximum delta of pass k - 1.
C11_MaxDeltaNonIncreasing ==
    (PassDone /\ Passes >= 2) =>
        LET start  == ResolvedContext(scenarioName, manualOverrides)
            before == Iterate(start, Passes - 2)
        IN  /\ prev = RelaxationPass(before)
            /\ ~Less(MaxDelta(prev, before), MaxDelta(context, prev))

\* Pass number MaxPasses moved the values by strictly less than the
\* pass before it, and by more than nothing.
C11_Witness ==
    /\ PassDone
    /\ Passes = MaxPasses
    /\ Less(MaxDelta(context, prev),
            MaxDelta(prev, Iterate(ResolvedContext(scenarioName, manualOverrides),
                                   Passes - 2)))
    /\ Less(Zero, MaxDelta(context, prev))

\* C18: in every pass disposalCost is computed from the co2Cost of the previous
\* pass, co2Cost from the disposalCost written in this pass, logisticsCost from
\* the ecoFees of the previous pass, and ecoFees from the logisticsCost and
\* co2Cost written in this pass.
C18_GaussSeidelOrder ==
    PassDone =>
        /\ context.disposalCost =
             Add(Times(prev.materialCost, 80), prev.co2Cost)
        /\ context.co2Cost =
             Add(Times(prev.energyCost, 10), Times(context.disposalCost, 5))
        /\ context.logisticsCost = Add(prev.transportCost, prev.ecoFees)
        /\ context.ecoFees =
             Add(Times(context.logisticsCost, 10), Times(context.co2Cost, 5))

\* A second or later pass in which every calculated attribute changed, so that
\* reading the snapshot and reading the context give different values.
C18_Witness ==
    /\ PassDone
    /\ Passes >= 2
    /\ \A a \in CalculatedNames : context[a] # prev[a]
    /\ context.co2Cost #
         Add(Times(prev.energyCost, 10), Times(prev.disposalCost, 5))
    /\ context.ecoFees #
         Add(Times(prev.logisticsCost, 10), Times(prev.co2Cost, 5))

\* C20: the value returned has the same shape in both terminal states: exactly
\* the seven attributes, each a number, and no field telling Converged from
\* Exhausted.
C20_SameShapeInBothTerminalStates ==
    /\ returned =>
         /\ DOMAIN result = AttributeNames
         /\ \A a \in AttributeNames : DOMAIN result[a] = {"neg", "mag"}
    /\ (returned /\ memo.set) => DOMAIN memo.result = DOMAIN result

\* A result of an Exhausted call (no pass allowed) is kept and a Converged
\* call has returned.
C20_Witness ==
    /\ memo.set
    /\ memo.maxIterations = 0
    /\ returned
    /\ state = "Converged"
    /\ DOMAIN memo.result = DOMAIN result
    /\ memo.result # result

Terminal == {"Converged", "Exhausted"}

\* C19: every run starts in Iterating, reaches Converged or Exhausted after at
\* most maxIterations passes, and once it is there no further pass is executed.
C19_RunTerminates ==
    /\ [][(state = "Idle" \/ returned) /\ state' # state => state' = "Iterating"]_vars
    /\ [][returned /\ ~returned' => state' = "Iterating" /\ i' = 0]_vars
    /\ [](Passes <= maxIterations)
    /\ [](state = "Iterating" => <>(state \in Terminal))
    /\ [][(state \in Terminal /\ ~returned) =>
            (state' = state /\ context' = context /\ prev' = prev /\ i' = i)]_vars

\* A run allowed MaxPasses passes executed all of them and returned Exhausted.
C19_Witness ==
    /\ returned
    /\ state = "Exhausted"
    /\ maxIterations = MaxPasses
    /\ Passes = MaxPasses
    /\ PassDone

\* ------------------------------------------------------- non-finite values
\* Some value of the manual overrides is not a finite number.
HasNonFinite(mo) == \E b \in DOMAIN mo : \E a \in DOMAIN mo[b] : IsNaN(mo[b][a])

\* C12: a call whose manual overrides hold a non-finite value is rejected
\* before any relaxation pass is executed and returns no context: no pass has
\* left a snapshot and the call has not returned a context.
C12_NonFiniteRejectedBeforeIteration ==
    (state # "Idle" /\ HasNonFinite(manualOverrides)) =>
        (prev = NoContext /\ ~returned)

\* ---------------------------------------------------------- independent runs
\* What the second call returns when it is executed alone.
Alone(run) ==
    runSimulation(ScenarioCatalog, run.scenarioName, run.maxIterations,
                  run.threshold, run.manualOverrides)

\* C13: under any interleaving of the passes of two runs, each run returns
\* the context it returns when it is executed alone.
C13_RunsIndependent ==
    /\ returned =>
         result = runSimulation(ScenarioCatalog, scenarioName, maxIterations,
                                threshold, manualOverrides)
    /\ other.returned => other.result = Alone(other)

\* The second run has returned its converged context while the first run, of
\* the other scenario, is between two of its passes.
C13_Witness ==
    /\ other.returned
    /\ other.state = "Converged"
    /\ other.result = Alone(other)
    /\ state = "Iterating"
    /\ i >= 1
    /\ scenarioName # other.scenarioName

\* ------------------------------------------------------------ display rows
\* The presentation order of the rows and the attribute each row shows.
DisplayLabels ==
    <<"Material Cost", "Energy Cost", "Disposal Cost", "CO2 Cost",
      "Transport Cost", "Logistics Cost", "Eco Fees">>

DisplayAttributes ==
    <<"materialCost", "energyCost", "disposalCost", "co2Cost",
      "transportCost", "logisticsCost", "ecoFees">>

\* C14: getDisplayRows returns exactly seven {label, value} pairs in the
\* order Material Cost, Energy Cost, Disposal Cost, CO2 Cost, Transport Cost,
\* Logistics Cost, Eco Fees, one per attribute, each value the context's value
\* of that attribute.
C14_SevenRowsInFixedOrder ==
    [][rows' # rows =>
         /\ Len(rows') = 7
         /\ \A k \in 1..7 :
               /\ DOMAIN rows'[k] = {"label", "value"}
               /\ rows'[k].label = DisplayLabels[k]
               /\ rows'[k].value = result[DisplayAttributes[k]]
         /\ {DisplayAttributes[k] : k \in 1..7} = AttributeNames]_vars

\* The rows of a converged context whose calculated values differ from each
\* other.
C14_Witness ==
    /\ returned
    /\ state = "Converged"
    /\ Len(rows) = 7
    /\ rows[3].value = result.disposalCost
    /\ rows[4].value = result.co2Cost
    /\ rows[3].value # rows[4].value
    /\ rows[6].value # rows[7].value

\* C15: getDisplayRows has no side effects: the context it is given holds
\* the same values after the call, and nothing but the caller's rows changes.
C15_DisplayRowsNoSideEffects ==
    [][rows' # rows =>
         /\ result' = result
         /\ context' = context
         /\ UNCHANGED <<scenarios, scenarioName, maxIterations, threshold,
                        manualOverrides, prev, i, state, returned, memo, other,
                        inputs, selectedScenarios, scenarioResults>>]_vars

\* The rows have been taken from the context of an exhausted run, which still
\* holds its calculated values.
C15_Witness ==
    /\ returned
    /\ state = "Exhausted"
    /\ rows = getDisplayRows(result)
    /\ result = context
    /\ result.disposalCost # Zero
    /\ result.ecoFees # Zero

\* ------------------------------------------------------ immutable catalog
\* C16: after any sequence of runSimulation calls with any overrides and any
\* sequence of input edits and re-renders, the scenario catalog holds its
\* construction-time values, and a run of "Base" without overrides starts
\* from materialCost = 120, energyCost = 60, transportCost = 35.
C16_CatalogNeverMutated ==
    /\ scenarios = ScenarioCatalog
    /\ (BeforeFirstPass /\ scenarioName = "Base" /\ manualOverrides = <<>>) =>
          /\ context.materialCost = Dec(120, 0)
          /\ context.energyCost = Dec(60, 0)
          /\ context.transportCost = Dec(35, 0)

\* All three inputs have been edited and rendered, and a run of "Base"
\* without overrides has just been started.
C16_Witness ==
    /\ inputs.materialCost = Dec(100, 0)
    /\ inputs.energyCost = Dec(75, 0)
    /\ inputs.transportCost = Dec(0, 0)
    /\ Len(scenarioResults) = 2
    /\ scenarioResults[1][1].value = Dec(100, 0)
    /\ BeforeFirstPass
    /\ scenarioName = "Base"
    /\ manualOverrides = <<>>
    /\ context.materialCost = Dec(120, 0)

\* ------------------------------------------------- reach of transportCost
\* The initial contexts of the two calls differ in transportCost only.
DifferOnlyInTransport ==
    LET mine   == InitialContext(ScenarioCatalog, scenarioName, manualOverrides)
        theirs == InitialContext(ScenarioCatalog, other.scenarioName,
                                 other.manualOverrides)
    IN  /\ mine.transportCost # theirs.transportCost
        /\ \A a \in AttributeNames \ {"transportCost"} : mine[a] = theirs[a]

\* C21: two runs with the same maxIterations and threshold whose initial
\* contexts differ only in transportCost return the same disposalCost and the
\* same co2Cost.
C21_TransportReachesLogisticsOnly ==
    ( /\ returned
      /\ other.returned
      /\ maxIterations = other.maxIterations
      /\ threshold = other.threshold
      /\ DifferOnlyInTransport )
    => /\ result.disposalCost = other.result.disposalCost
       /\ result.co2Cost = other.result.co2Cost

\* ------------------------------------------------------- inputs are kept
\* C22: the passes never write an input attribute: in every state of a run,
\* in every snapshot and in the returned context, materialCost, energyCost
\* and transportCost equal their resolved initial values.
C22_InputsNeverWritten ==
    state # "Idle" =>
        \A a \in InputNames :
            /\ context[a] = Resolved(scenarioName, manualOverrides, a)
            /\ PassDone => prev[a] = context[a]
            /\ returned => result[a] = context[a]

\* A run with an overridden energyCost has returned after three passes or
\* more, and its calculated values have moved.
C22_Witness ==
    /\ returned
    /\ state = "Converged"
    /\ i >= 2
    /\ Overridden(manualOverrides, "energyCost")
    /\ result.energyCost = Dec(75, 0)
    /\ result.transportCost = Resolved(scenarioName, manualOverrides, "transportCost")
    /\ result.logisticsCost # result.transportCost
    /\ result.co2Cost # Zero

\* ------------------------------------------------- thresholds not above 0
NonPositive(th) == ~Less(Zero, th)

\* C23: with threshold <= 0 the convergence test never passes, even when a
\* pass changes no value: the run executes exactly maxIterations passes and
\* ends Exhausted.
C23_NonPositiveThresholdExhausts ==
    /\ []((state # "Idle" /\ NonPositive(threshold)) =>
             /\ state # "Converged"
             /\ state = "Exhausted" => i = maxIterations)
    /\ []((state = "Iterating" /\ NonPositive(threshold)) =>
             <>(state = "Exhausted" /\ i = maxIterations))

\* A run with threshold 0 whose last pass changed no value is Exhausted
\* after maxIterations passes.
C23_Witness ==
    /\ state = "Exhausted"
    /\ threshold = Zero
    /\ maxIterations >= 1
    /\ i = maxIterations
    /\ PassDone
    /\ context = prev
    /\ MaxDelta(context, prev) = Zero

\* ------------------------------------------------------ at least one pass
\* The three inputs of the current call resolve to 0.
AllInputsZero ==
    \A a \in InputNames : Resolved(scenarioName, manualOverrides, a) = Zero

\* C24: the convergence test is evaluated only after a full pass, so a
\* Converged run has executed at least one pass; with the three inputs
\* resolved to 0, threshold > 0 and maxIterations >= 1 the run ends Converged
\* after exactly one pass with all calculated attributes equal to 0.
C24_AtLeastOnePass ==
    /\ state = "Converged" =>
          /\ maxIterations >= 1
          /\ PassDone
          /\ context = RelaxationPass(prev)
    /\ ( /\ state # "Idle"
         /\ AllInputsZero
         /\ Less(Zero, threshold)
         /\ maxIterations >= 1 ) =>
          /\ i = 0
          /\ state \in {"Iterating", "Converged"}
          /\ state = "Converged" =>
                \A a \in CalculatedNames : context[a] = Zero
          /\ returned =>
                /\ state = "Converged"
                /\ \A a \in CalculatedNames : result[a] = Zero

\* A run of HighEnergyPrices with the three inputs overridden to 0 has
\* returned Converged after its first pass.
C24_Witness ==
    /\ returned
    /\ state = "Converged"
    /\ i = 0
    /\ PassDone
    /\ AllInputsZero
    /\ scenarioName = "HighEnergyPrices"
    /\ threshold = Dec(10, 2)
    /\ maxIterations = 100
    /\ result.ecoFees = Zero

\* --------------------------------------------- the catalog runs converge
\* A call with the arguments the claim names: no overrides, threshold 0.001,
\* maxIterations 100.
CatalogRun(run) ==
    /\ run.state # "Idle"
    /\ run.scenarioName \in {"Base", "HighEnergyPrices"}
    /\ run.manualOverrides = <<>>
    /\ run.threshold = Dec(10, 2)
    /\ run.maxIterations = 100

\* C25: a run of Base or HighEnergyPrices with no manual overrides,
\* threshold 0.001 and maxIterations 100 ends Converged in fewer than 100
\* passes, not Exhausted: it never reaches loop counter 6 and never leaves
\* the loop by its condition.
C25_CatalogRunsConverge ==
    /\ CatalogRun([state |-> state, scenarioName |-> scenarioName,
                   manualOverrides |-> manualOverrides, threshold |-> threshold,
                   maxIterations |-> maxIterations]) =>
          /\ state # "Exhausted"
          /\ i < 6
          /\ returned => (state = "Converged" /\ Passes < 100)
    /\ CatalogRun(other) =>
          /\ other.state # "Exhausted"
          /\ other.i < 6
          /\ other.returned => other.state = "Converged"

\* Both catalog scenarios have returned Converged after six passes.
C25_Witness ==
    /\ scenarioName = "HighEnergyPrices"
    /\ maxIterations = 100
    /\ manualOverrides = <<>>
    /\ returned
    /\ state = "Converged"
    /\ Passes = 6
    /\ CatalogRun(other)
    /\ other.scenarioName = "Base"
    /\ other.returned
    /\ other.state = "Converged"
    /\ other.i = 5

\* ------------------------------------------------------------ App: inputs
\* C26: the three inputs are applied as overrides to "Base" only: the
\* displayed Base rows for Material Cost, Energy Cost and Transport Cost equal
\* the current inputs, and the rows of every other selected scenario are those
\* of runSimulation(scenario, 100, 0.001) without overrides, whatever the
\* inputs are.
C26_InputsOverrideBaseOnly ==
    \A k \in 1..Len(selectedScenarios) :
        IF selectedScenarios[k] = "Base"
        THEN /\ scenarioResults[k][1].value = inputs.materialCost
             /\ scenarioResults[k][2].value = inputs.energyCost
             /\ scenarioResults[k][5].value = inputs.transportCost
        ELSE scenarioResults[k] =
                getDisplayRows(runSimulation(ScenarioCatalog, selectedScenarios[k],
                                             AppMaxIterations, AppThreshold, <<>>))

\* The three inputs have been edited; Base shows them and HighEnergyPrices
\* still shows its own energyCost and transportCost.
C26_Witness ==
    /\ selectedScenarios = <<"Base", "HighEnergyPrices">>
    /\ inputs.materialCost = Dec(0, 0)
    /\ inputs.energyCost = Dec(75, 0)
    /\ inputs.transportCost = Dec(0, 0)
    /\ scenarioResults[1][1].value = Dec(0, 0)
    /\ scenarioResults[1][2].value = Dec(75, 0)
    /\ scenarioResults[2][1].value = Dec(120, 0)
    /\ scenarioResults[2][2].value = Dec(90, 0)
    /\ scenarioResults[2][5].value = Dec(40, 0)

\* ----------------------------------------------------------- App: toggles
Selected(sel) == {sel[k] : k \in 1..Len(sel)}

NoDuplicate(sel) == \A j, k \in 1..Len(sel) : sel[j] = sel[k] => j = k

\* C27: selectedScenarios holds no duplicate and only catalog scenario names;
\* a toggle of a selected scenario removes it, a toggle of an unselected one
\* appends it at the end, and two toggles of the same scenario restore the
\* same set.
C27_ToggleKeepsSelectionWellFormed ==
    /\ [](/\ NoDuplicate(selectedScenarios)
          /\ Selected(selectedScenarios) \subseteq DOMAIN ScenarioCatalog
          /\ \A s \in DOMAIN ScenarioCatalog :
                Selected(Toggled(Toggled(selectedScenarios, s), s)) =
                    Selected(selectedScenarios))
    /\ [][selectedScenarios' # selectedScenarios =>
            \E s \in DOMAIN ScenarioCatalog :
                \/ /\ s \in Selected(selectedScenarios)
                   /\ s \notin Selected(selectedScenarios')
                   /\ selectedScenarios' =
                         SelectSeq(selectedScenarios, LAMBDA x : x # s)
                \/ /\ s \notin Selected(selectedScenarios)
                   /\ selectedScenarios' = Append(selectedScenarios, s)]_vars

\* "Base" has been toggled off and on again: it is now last.
C27_Witness ==
    /\ selectedScenarios = <<"HighEnergyPrices", "Base">>
    /\ Len(scenarioResults) = 2
    /\ scenarioResults[1][2].value = Dec(90, 0)

\* ------------------------------------------------------------ App: render
\* C28: scenarioResults has one entry per selected scenario, entry i being
\* the result of the scenario at position i; chartData has exactly seven rows
\* when a scenario is selected and is empty, with no failing access, when
\* none is.
C28_ResultsFollowSelection ==
    /\ Len(scenarioResults) = Len(selectedScenarios)
    /\ \A k \in 1..Len(selectedScenarios) :
          scenarioResults[k] =
              getDisplayRows(
                  runSimulation(scenarios, selectedScenarios[k], AppMaxIterations,
                                AppThreshold,
                                AppOverrides(scenarios, selectedScenarios[k], inputs)))
    /\ ~ChartAccessFails(selectedScenarios, scenarioResults)
    /\ Len(selectedScenarios) >= 1 =>
          /\ Len(chartData(selectedScenarios, scenarioResults)) = 7
          /\ \A idx \in 1..7 :
                LET entry == chartData(selectedScenarios, scenarioResults)[idx]
                IN  /\ DOMAIN entry = {"name"} \cup Selected(selectedScenarios)
                    /\ entry["name"] = DisplayLabels[idx]
                    /\ \A k \in 1..Len(selectedScenarios) :
                          entry[selectedScenarios[k]] = scenarioResults[k][idx].value
    /\ Len(selectedScenarios) = 0 =>
          /\ scenarioResults = <<>>
          /\ chartData(selectedScenarios, scenarioResults) = <<>>

\* Every scenario has been toggled off: nothing is rendered.
C28_WitnessEmpty ==
    /\ selectedScenarios = <<>>
    /\ scenarioResults = <<>>
    /\ chartData(selectedScenarios, scenarioResults) = <<>>
    /\ inputs # InitialInputs

\* Only HighEnergyPrices is selected after an input edit: seven chart rows
\* with its values.
C28_Witness ==
    /\ selectedScenarios = <<"HighEnergyPrices">>
    /\ inputs.energyCost = Dec(75, 0)
    /\ Len(chartData(selectedScenarios, scenarioResults)) = 7
    /\ chartData(selectedScenarios, scenarioResults)[2]["HighEnergyPrices"] = Dec(90, 0)

====
